---- MODULE Spec2Model ----
(***************************************************************************)
(* Model of scripts/cleanup_registry.py: the RegistryCleanup client and    *)
(* main().  The program is sequential; a step of the model is one          *)
(* blocking call of the program (an HTTP request with its handling, the    *)
(* confirmation prompt) together with all the code that runs up to the     *)
(* next blocking call.  The registry is the environment: each request is   *)
(* answered by any response of a small set.  Strings whose characters      *)
(* matter (patterns, repository names, the confirmation input) are         *)
(* sequences of one-character strings.                                     *)
(***************************************************************************)
EXTENDS Integers, Sequences, FiniteSets, TLC

VARIABLES
    args,            \* parsed command line: info, pattern, repository, dry_run
    pc,              \* position of the program
    exit_code,       \* process exit status, -1 while running
    interrupted,     \* KeyboardInterrupt was raised
    out,             \* kinds of message printed so far
    net_requests,    \* kinds of HTTP request issued so far
    delete_targets,  \* repositories a DELETE request was sent to so far
    call_deletes,    \* DELETE requests of the current cleanup_repository call
    last_delete,     \* the last delete_manifest call of the current
                     \* cleanup_repository call: the answer and the result
    confirm,         \* answers given at the confirmation prompt, in order
    repositories,    \* list_repositories() result held by the caller
    matching_repos,  \* cleanup_repositories_by_pattern: matching_repos
    repo_idx,        \* index of the repository being processed
    tags,            \* cleanup_repository: tags
    tag_idx,         \* index of the tag being processed
    digest,          \* cleanup_repository: digest of the current tag
    deleted_count,   \* cleanup_repository: deleted_count
    failed_count,    \* cleanup_repository: failed_count
    lookups,         \* get_manifest_digest results of the current repository
    error,           \* the exception that left the operation, if any
    endpoint,        \* behaviour of the manifest endpoint under study
    returned,        \* value the last cleanup_repository call returned, until
                     \* the next call starts
    results,         \* cleanup_repositories_by_pattern: results
    total_deleted,   \* cleanup_repositories_by_pattern: total_deleted
    total_failed     \* cleanup_repositories_by_pattern: total_failed

vars == <<args, pc, exit_code, interrupted, error, out, net_requests,
          delete_targets, call_deletes, last_delete, confirm, repositories, matching_repos,
          repo_idx, tags, tag_idx, digest, deleted_count, failed_count, lookups,
          endpoint, returned, results, total_deleted, total_failed>>

----------------------------------------------------------------------------
(* Bounds of the model *)

MaxTags == 2
MaxRepos == 2

----------------------------------------------------------------------------
(* Values *)

None == "None"

\* Python truth value of an optional string held as a TLA+ string
Truthy(s) == s # None /\ s # ""

\* Python truth value of an optional string held as a character sequence
ArgTruthy(a) == a.given /\ a.val # <<>>

NoArg == [given |-> FALSE, val |-> <<>>]
Arg(s) == [given |-> TRUE, val |-> s]

SeqsUpTo(S, n) == UNION {[1..k -> S] : k \in 0..n}

----------------------------------------------------------------------------
(* The registry's answers *)

Response(status, json_ok, list, dg) ==
    [kind |-> "response", status |-> status, json_ok |-> json_ok,
     list |-> list, digest |-> dg]

\* the request never got an HTTP answer (connection refused, timeout, TLS)
NetErr ==
    [kind |-> "neterr", status |-> 0, json_ok |-> FALSE,
     list |-> <<>>, digest |-> None]

NoResponse ==
    [kind |-> "none", status |-> 0, json_ok |-> FALSE,
     list |-> <<>>, digest |-> None]

Status(code) == Response(code, FALSE, <<>>, None)

\* requests' Response.raise_for_status(): HTTPError for 4xx and 5xx
raise_for_status(resp) == resp.status >= 400 /\ resp.status < 600

\* RegistryCleanup._make_request: the exception raised, "none" when the
\* response is returned
_make_request(resp) ==
    IF resp.kind = "neterr" THEN "ConnectionError"
    ELSE IF raise_for_status(resp) THEN "HTTPError"
    ELSE "none"

----------------------------------------------------------------------------
(* RegistryCleanup: the methods as functions of the registry's answer *)

\* list_repositories: every failure is caught and gives the empty list
list_repositories(resp) ==
    IF _make_request(resp) # "none" THEN <<>>
    ELSE IF ~resp.json_ok THEN <<>>
    ELSE resp.list

\* list_tags: [raised, status, tags].  The raise of the HTTPError handler
\* leaves the try statement: the handler for Exception below it does not
\* see it.
list_tags(resp) ==
    LET exc == _make_request(resp) IN
    IF exc = "HTTPError"
    THEN IF resp.status = 404
         THEN [raised |-> FALSE, status |-> 0, tags |-> <<>>]
         ELSE [raised |-> TRUE, status |-> resp.status, tags |-> <<>>]
    ELSE IF exc # "none" THEN [raised |-> FALSE, status |-> 0, tags |-> <<>>]
    ELSE IF ~resp.json_ok THEN [raised |-> FALSE, status |-> 0, tags |-> <<>>]
    ELSE [raised |-> FALSE, status |-> 0, tags |-> resp.list]

\* get_manifest_digest: manifest_types, in the order they are tried
manifest_types == <<"manifest.v2+json", "manifest.v1+json", "oci.manifest.v1+json">>

ManifestTypes == {manifest_types[i] : i \in 1..Len(manifest_types)}

\* get_manifest_digest: the loop from the i-th manifest type on, against a
\* manifest endpoint ep that answers each Accept type in its own way.
\* [raised, status, digest]: raised with the status of the HTTPError that
\* left the method, or the digest returned (None when no type gave one).
\* The raise of the HTTPError handler leaves the try statement: the handler
\* for Exception below it does not see it.
RECURSIVE probe_from(_, _)
probe_from(ep, i) ==
    IF i > Len(manifest_types)
    THEN [raised |-> FALSE, status |-> 0, digest |-> None]
    ELSE LET resp == ep[manifest_types[i]]
             exc == _make_request(resp)
         IN  IF exc = "HTTPError"
             THEN IF resp.status = 404
                  THEN probe_from(ep, i + 1)
                  ELSE [raised |-> TRUE, status |-> resp.status, digest |-> None]
             ELSE IF exc # "none" THEN probe_from(ep, i + 1)
             ELSE IF Truthy(resp.digest)
                  THEN [raised |-> FALSE, status |-> 0, digest |-> resp.digest]
                  ELSE probe_from(ep, i + 1)

get_manifest_digest(ep) == probe_from(ep, 1)

\* delete_manifest without the dry_run test
delete_manifest_no_dry_run(dry_run, resp) ==
    IF _make_request(resp) # "none" THEN [ok |-> FALSE, sent |-> TRUE]
    ELSE [ok |-> resp.status \in {202, 204}, sent |-> TRUE]

\* delete_manifest taking every answer that raise_for_status lets through
\* for a success
delete_manifest_any_2xx(dry_run, resp) ==
    IF dry_run THEN [ok |-> TRUE, sent |-> FALSE]
    ELSE IF _make_request(resp) # "none" THEN [ok |-> FALSE, sent |-> TRUE]
    ELSE [ok |-> TRUE, sent |-> TRUE]

\* delete_manifest: [ok, sent]; sent tells whether a DELETE request was made
delete_manifest(dry_run, resp) ==
    IF dry_run THEN [ok |-> TRUE, sent |-> FALSE]
    ELSE IF _make_request(resp) # "none" THEN [ok |-> FALSE, sent |-> TRUE]
    ELSE [ok |-> resp.status \in {202, 204}, sent |-> TRUE]

----------------------------------------------------------------------------
(* cleanup_repositories_by_pattern: pattern matching and confirmation *)

RECURSIVE replace(_, _, _)
\* str.replace(old, new) for a one-character old
replace(s, old, new) ==
    IF s = <<>> THEN <<>>
    ELSE (IF Head(s) = old THEN new ELSE <<Head(s)>>) \o replace(Tail(s), old, new)

\* pattern.replace('*', '.*').replace('?', '.')
regex_pattern(pattern) == replace(replace(pattern, "*", <<".", "*">>), "?", <<".">>)

\* one regular-expression atom against one character: "." is any character
\* (repository names hold no line terminator), any other atom is a literal
re_atom(a, c) == a = "." \/ a = c

RECURSIVE re_match(_, _)
\* re.compile('^' + re + '$').match(s), for the regular expressions that
\* regex_pattern can produce from the pattern alphabet: atoms and starred atoms
re_match(re, s) ==
    IF re = <<>> THEN s = <<>>
    ELSE IF Len(re) >= 2 /\ re[2] = "*"
    THEN \/ re_match(SubSeq(re, 3, Len(re)), s)
         \/ (s # <<>> /\ re_atom(re[1], Head(s)) /\ re_match(re, Tail(s)))
    ELSE s # <<>> /\ re_atom(re[1], Head(s)) /\ re_match(Tail(re), Tail(s))

\* regex.match(repo)
matches(pattern, repo) == re_match(regex_pattern(pattern), repo)

RECURSIVE filter_repos(_, _)
\* [repo for repo in repositories if regex.match(repo)]
filter_repos(pattern, repos) ==
    IF repos = <<>> THEN <<>>
    ELSE (IF matches(pattern, Head(repos)) THEN <<Head(repos)>> ELSE <<>>)
         \o filter_repos(pattern, Tail(repos))

\* str.lower() on one character of the input alphabet
lower_char(c) ==
    CASE c = "Y" -> "y"
      [] c = "E" -> "e"
      [] c = "S" -> "s"
      [] c = "N" -> "n"
      [] c = "O" -> "o"
      [] OTHER -> c

lower(s) == [i \in 1..Len(s) |-> lower_char(s[i])]

\* the test of the answer accepting what starts with "y"
confirmed_by_first_letter(answer) ==
    answer # <<>> /\ lower_char(answer[1]) = "y"

\* not (confirm.lower() != 'yes')
confirmed(answer) == lower(answer) = <<"y", "e", "s">>

----------------------------------------------------------------------------
(* Inputs: the command line, the operator's answers, the registry's answers *)

\* values of --pattern; the empty string is a value the shell can pass
Patterns ==
    { <<>>, <<"a", "*">>, <<"a", "?">>, <<"a", ".">>, <<"?", "a">>, <<"*">> }

\* values of --repository
RepoArgs == {<<"a">>}

\* repository names of the registry, in the catalog's (lexical) order
RepoPool == << <<"a">>, <<"a", "b">>, <<"b", "a">> >>

Catalogs ==
    {[i \in 1..Len(ix) |-> RepoPool[ix[i]]] :
        ix \in {s \in SeqsUpTo(1..Len(RepoPool), MaxRepos) :
                   \A i \in 1..Len(s) - 1 : s[i] < s[i + 1]}}

TagPool == <<"latest", "v1", "v2", "v3">>

\* the registry lists the tags of a repository in one order or the other
TagOrders ==
    { [i \in 1..MaxTags |-> TagPool[i]], [i \in 1..MaxTags |-> TagPool[MaxTags + 1 - i]] }

TagLists == {SubSeq(o, 1, k) : o \in TagOrders, k \in 0..MaxTags}

\* the digest the registry holds for a tag
digest_of(tag) == "sha256:" \o tag

\* the digest of a manifest differs with the media type it is served as
type_digest(mt) == "sha256:" \o mt

ConfirmInputs ==
    { <<"y", "e", "s">>, <<"Y", "E", "s">>, <<"y">>, <<"n", "o">>, <<>>,
      <<"y", "e", "s", " ">> }

CatalogResponses ==
    {Response(200, TRUE, c, None) : c \in Catalogs}
        \cup {Response(200, FALSE, <<>>, None), Status(500), NetErr}

TagListResponses ==
    {Response(200, TRUE, tl, None) : tl \in TagLists}
        \cup {Response(200, FALSE, <<>>, None), Status(404), Status(500), NetErr}

HeadResponses(dg) ==
    {Response(200, FALSE, <<>>, dg), Response(200, FALSE, <<>>, None),
     Status(404), Status(500), NetErr}

DeleteResponses ==
    {Status(200), Status(202), Status(204), Status(404), Status(500), NetErr}

PingResponses == {Status(200), Status(401), NetErr}

\* manifest endpoints that hold the digest dg, whatever the media type
Endpoints(dg) == [ManifestTypes -> HeadResponses(dg)]

\* manifest endpoints whose digest differs with the media type
TypedEndpoints ==
    {ep \in [ManifestTypes -> UNION {HeadResponses(type_digest(mt)) : mt \in ManifestTypes}] :
        \A mt \in ManifestTypes : ep[mt] \in HeadResponses(type_digest(mt))}

EmptyEndpoint == [mt \in ManifestTypes |-> NoResponse]

\* what get_manifest_digest can return or raise for a tag, over every
\* behaviour of the manifest endpoint
LookupOutcomes ==
    [t \in {TagPool[i] : i \in 1..Len(TagPool)} |->
        {get_manifest_digest(ep) : ep \in Endpoints(digest_of(t))}]

----------------------------------------------------------------------------
(* The program *)

InitArgs ==
    [info : BOOLEAN,
     pattern : {NoArg} \cup {Arg(p) : p \in Patterns},
     repository : {NoArg} \cup {Arg(r) : r \in RepoArgs},
     dry_run : BOOLEAN]

NoError == [exc |-> "none", status |-> 0, from |-> "none"]

NoReturn == [returned |-> FALSE, deleted |-> 0, failed |-> 0]

NoDelete == [sent |-> FALSE, kind |-> "none", status |-> 0, ok |-> FALSE]

InitRest ==
    /\ exit_code = -1
    /\ interrupted = FALSE
    /\ error = NoError
    /\ out = {}
    /\ net_requests = {}
    /\ delete_targets = {}
    /\ call_deletes = <<>>
    /\ last_delete = NoDelete
    /\ confirm = <<>>
    /\ repositories = <<>>
    /\ matching_repos = <<>>
    /\ repo_idx = 0
    /\ tags = <<>>
    /\ tag_idx = 0
    /\ digest = None
    /\ deleted_count = 0
    /\ failed_count = 0
    /\ lookups = <<>>
    /\ returned = NoReturn
    /\ results = <<>>
    /\ total_deleted = 0
    /\ total_failed = 0

Init ==
    /\ args \in InitArgs
    /\ pc = "main"
    /\ endpoint = EmptyEndpoint
    /\ InitRest

PatternMode == ~args.info /\ ArgTruthy(args.pattern)

\* the repository argument of the running cleanup_repository call
CurRepo == IF PatternMode THEN matching_repos[repo_idx] ELSE args.repository.val

\* the DELETE path built from the tag in place of the digest
delete_path_by_tag(repository, dg, tag) == [repo |-> repository, ref |-> tag]

\* f'/{repository}/manifests/{digest}': the manifest a DELETE addresses
delete_path(repository, dg, tag) == [repo |-> repository, ref |-> dg]

\* main: the argument validation and the construction of the client
main ==
    /\ pc = "main"
    /\ IF ~args.info /\ ~ArgTruthy(args.pattern) /\ ~ArgTruthy(args.repository)
       THEN /\ out' = out \cup {"error_must_specify", "usage"}
            /\ exit_code' = 1
            /\ pc' = "done"
       ELSE IF ArgTruthy(args.pattern) /\ ArgTruthy(args.repository)
       THEN /\ out' = out \cup {"error_both"}
            /\ exit_code' = 1
            /\ pc' = "done"
       ELSE /\ out' = out \cup {"client"}
            /\ exit_code' = exit_code
            /\ pc' = IF args.info THEN "show_registry_info"
                     ELSE IF ArgTruthy(args.pattern)
                          THEN "cleanup_repositories_by_pattern"
                          ELSE "cleanup_repository"
    /\ UNCHANGED <<args, interrupted, error, net_requests, delete_targets,
                   call_deletes, last_delete, confirm, repositories, matching_repos,
                   repo_idx, tags, tag_idx, digest, deleted_count, failed_count,
                   lookups, endpoint, returned, results, total_deleted, total_failed>>

\* main: except Exception, reached by an exception e of the operation
raise_to_main(e, o) ==
    /\ error' = e
    /\ out' = o \cup {"operation_failed"}
    /\ exit_code' = 1
    /\ pc' = "done"

\* cleanup_repository returns (d, f) to its caller, which runs on to its
\* next blocking call
cleanup_return(d, f, o) ==
    /\ returned' = [returned |-> TRUE, deleted |-> d, failed |-> f]
    /\ UNCHANGED <<error, exit_code>>
    /\ IF PatternMode
       THEN /\ results' = Append(results, [repo |-> CurRepo, deleted |-> d, failed |-> f])
            /\ total_deleted' = total_deleted + d
            /\ total_failed' = total_failed + f
            /\ IF repo_idx < Len(matching_repos)
               THEN /\ repo_idx' = repo_idx + 1
                    /\ pc' = "cleanup_repository"
                    /\ out' = o
               ELSE /\ repo_idx' = repo_idx
                    /\ pc' = "main_end"
                    /\ out' = o \cup {"total_summary"}
       ELSE /\ out' = o \cup {"summary"}
            /\ pc' = "main_end"
            /\ UNCHANGED <<results, total_deleted, total_failed, repo_idx>>

\* cleanup_repository: the end of one iteration of the loop over tags
next_tag(d, f, o) ==
    /\ deleted_count' = d
    /\ failed_count' = f
    /\ IF tag_idx < Len(tags)
       THEN /\ tag_idx' = tag_idx + 1
            /\ pc' = "get_manifest_digest"
            /\ out' = o
            /\ UNCHANGED <<error, exit_code, returned, results, total_deleted,
                           total_failed, repo_idx>>
       ELSE /\ tag_idx' = tag_idx
            /\ cleanup_return(d, f, o \cup {"repo_counts"})

\* cleanup_repository: list_tags and the start of the loop
cleanup_repository ==
    /\ pc = "cleanup_repository"
    /\ \E resp \in TagListResponses :
         LET r == list_tags(resp) IN
         /\ net_requests' = net_requests \cup {"GET tags"}
         /\ tags' = r.tags
         /\ lookups' = <<>>
         /\ call_deletes' = <<>>
         /\ last_delete' = NoDelete
         /\ digest' = None
         /\ IF r.raised
            THEN /\ raise_to_main([exc |-> "HTTPError", status |-> r.status,
                                   from |-> "list_tags"], out)
                 /\ returned' = NoReturn
                 /\ UNCHANGED <<tag_idx, deleted_count, failed_count, results,
                                total_deleted, total_failed, repo_idx>>
            ELSE IF r.tags = <<>>
            THEN /\ cleanup_return(0, 0, out)
                 /\ tag_idx' = 0
                 /\ deleted_count' = 0
                 /\ failed_count' = 0
            ELSE /\ tag_idx' = 1
                 /\ deleted_count' = 0
                 /\ failed_count' = 0
                 /\ returned' = NoReturn
                 /\ pc' = "get_manifest_digest"
                 /\ UNCHANGED <<error, out, exit_code, results, total_deleted,
                                total_failed, repo_idx>>
    /\ UNCHANGED <<args, interrupted, delete_targets, confirm, repositories,
                   matching_repos, endpoint>>

\* cleanup_repository: get_manifest_digest for the current tag
process_tag ==
    /\ pc = "get_manifest_digest"
    /\ \E r \in LookupOutcomes[tags[tag_idx]] :
         /\ net_requests' = net_requests \cup {"HEAD"}
         /\ IF r.raised
            THEN /\ raise_to_main([exc |-> "HTTPError", status |-> r.status,
                                   from |-> "get_manifest_digest"], out)
                 /\ UNCHANGED <<digest, lookups, tag_idx, deleted_count, failed_count,
                                returned, results, total_deleted, total_failed,
                                repo_idx>>
            ELSE IF ~Truthy(r.digest)
            THEN /\ digest' = None
                 /\ lookups' = Append(lookups, None)
                 /\ next_tag(deleted_count, failed_count + 1, out \cup {"no_digest"})
            ELSE /\ digest' = r.digest
                 /\ lookups' = Append(lookups, r.digest)
                 /\ pc' = "delete_manifest"
                 /\ UNCHANGED <<error, out, exit_code, tag_idx, deleted_count,
                                failed_count, returned, results, total_deleted,
                                total_failed, repo_idx>>
    /\ UNCHANGED <<args, interrupted, delete_targets, call_deletes, last_delete,
                   confirm, repositories, matching_repos, tags, endpoint>>

\* cleanup_repository: delete_manifest for the current tag
delete_tag ==
    /\ pc = "delete_manifest"
    /\ \E resp \in DeleteResponses :
         LET r == delete_manifest(args.dry_run, resp)
             req == delete_path(CurRepo, digest, tags[tag_idx])
         IN
         /\ call_deletes' = IF r.sent
                            THEN Append(call_deletes, [req |-> req, ti |-> tag_idx])
                            ELSE call_deletes
         /\ delete_targets' = IF r.sent THEN delete_targets \cup {req.repo}
                              ELSE delete_targets
         /\ last_delete' = IF r.sent
                           THEN [sent |-> TRUE, kind |-> resp.kind,
                                 status |-> resp.status, ok |-> r.ok]
                           ELSE [sent |-> FALSE, kind |-> "none", status |-> 0,
                                 ok |-> r.ok]
         /\ net_requests' = IF r.sent THEN net_requests \cup {"DELETE"} ELSE net_requests
         /\ IF r.ok
            THEN next_tag(deleted_count + 1, failed_count, out)
            ELSE next_tag(deleted_count, failed_count + 1, out)
    /\ UNCHANGED <<args, interrupted, confirm, repositories, matching_repos, tags,
                   digest, lookups, endpoint>>

\* cleanup_repositories_by_pattern: from the catalog request to the prompt
cleanup_repositories_by_pattern ==
    /\ pc = "cleanup_repositories_by_pattern"
    /\ \E resp \in CatalogResponses :
         LET repos == list_repositories(resp)
             m == filter_repos(args.pattern.val, repos)
         IN  /\ net_requests' = net_requests \cup {"GET catalog"}
             /\ repositories' = repos
             /\ IF repos = <<>>
                THEN /\ out' = out \cup {"no_repositories"}
                     /\ pc' = "main_end"
                     /\ UNCHANGED <<matching_repos, repo_idx>>
                ELSE IF m = <<>>
                THEN /\ out' = out \cup {"no_match"}
                     /\ pc' = "main_end"
                     /\ UNCHANGED <<matching_repos, repo_idx>>
                ELSE /\ matching_repos' = m
                     /\ out' = out
                     /\ IF args.dry_run
                        THEN pc' = "cleanup_repository" /\ repo_idx' = 1
                        ELSE pc' = "confirm" /\ repo_idx' = repo_idx
    /\ UNCHANGED <<args, exit_code, interrupted, error, delete_targets, call_deletes,
                   last_delete, confirm, tags, tag_idx, digest, deleted_count,
                   failed_count, lookups, endpoint, returned, results, total_deleted,
                   total_failed>>

\* cleanup_repositories_by_pattern: input() and the test of the answer
confirm_deletion ==
    /\ pc = "confirm"
    /\ \E answer \in ConfirmInputs :
         /\ confirm' = Append(confirm, answer)
         /\ IF confirmed(answer)
            THEN /\ pc' = "cleanup_repository"
                 /\ repo_idx' = 1
                 /\ out' = out
            ELSE /\ pc' = "main_end"
                 /\ repo_idx' = repo_idx
                 /\ out' = out \cup {"cancelled"}
    /\ UNCHANGED <<args, exit_code, interrupted, error, net_requests, delete_targets,
                   call_deletes, last_delete, repositories, matching_repos, tags,
                   tag_idx, digest, deleted_count, failed_count, lookups, endpoint,
                   returned, results, total_deleted, total_failed>>

\* cleanup_repositories_by_pattern: input() at the end of standard input
confirm_eof ==
    /\ pc = "confirm"
    /\ raise_to_main([exc |-> "EOFError", status |-> 0, from |-> "input"], out)
    /\ UNCHANGED <<args, interrupted, net_requests, delete_targets, call_deletes,
                   last_delete, confirm, repositories, matching_repos, repo_idx, tags,
                   tag_idx, digest, deleted_count, failed_count, lookups, endpoint,
                   returned, results, total_deleted, total_failed>>

\* show_registry_info: the connectivity test
show_registry_info ==
    /\ pc = "show_registry_info"
    /\ \E resp \in PingResponses :
         /\ net_requests' = net_requests \cup {"GET /"}
         /\ IF _make_request(resp) # "none"
            THEN out' = out \cup {"not_accessible"} /\ pc' = "main_end"
            ELSE out' = out \cup {"accessible"} /\ pc' = "info_list_repositories"
    /\ UNCHANGED <<args, exit_code, interrupted, error, delete_targets, call_deletes,
                   last_delete, confirm, repositories, matching_repos, repo_idx, tags,
                   tag_idx, digest, deleted_count, failed_count, lookups, endpoint,
                   returned, results, total_deleted, total_failed>>

\* show_registry_info: list_repositories
info_list_repositories ==
    /\ pc = "info_list_repositories"
    /\ \E resp \in CatalogResponses :
         /\ net_requests' = net_requests \cup {"GET catalog"}
         /\ repositories' = list_repositories(resp)
         /\ IF repositories' # <<>>
            THEN pc' = "info_list_tags" /\ repo_idx' = 1
            ELSE pc' = "main_end" /\ repo_idx' = repo_idx
    /\ UNCHANGED <<args, exit_code, interrupted, error, out, delete_targets,
                   call_deletes, last_delete, confirm, matching_repos, tags, tag_idx,
                   digest, deleted_count, failed_count, lookups, endpoint, returned,
                   results, total_deleted, total_failed>>

\* show_registry_info: repositories[:10]
InfoShown == 10

\* show_registry_info: list_tags for one of the first ten repositories
info_list_tags ==
    /\ pc = "info_list_tags"
    /\ \E resp \in TagListResponses :
         LET r == list_tags(resp) IN
         /\ net_requests' = net_requests \cup {"GET tags"}
         /\ tags' = r.tags
         /\ IF r.raised
            THEN /\ raise_to_main([exc |-> "HTTPError", status |-> r.status,
                                   from |-> "list_tags"], out)
                 /\ repo_idx' = repo_idx
            ELSE /\ UNCHANGED <<error, out, exit_code>>
                 /\ IF repo_idx < Len(repositories) /\ repo_idx < InfoShown
                    THEN pc' = "info_list_tags" /\ repo_idx' = repo_idx + 1
                    ELSE pc' = "main_end" /\ repo_idx' = repo_idx
    /\ UNCHANGED <<args, interrupted, delete_targets, call_deletes, last_delete,
                   confirm, repositories, matching_repos, tag_idx, digest,
                   deleted_count, failed_count, lookups, endpoint, returned, results,
                   total_deleted, total_failed>>

\* main: the end of the try block, after the operation returned
main_end ==
    /\ pc = "main_end"
    /\ out' = IF ~args.dry_run /\ (ArgTruthy(args.pattern) \/ ArgTruthy(args.repository))
              THEN out \cup {"gc_hint"}
              ELSE out
    /\ exit_code' = 0
    /\ pc' = "done"
    /\ UNCHANGED <<args, interrupted, error, net_requests, delete_targets,
                   call_deletes, last_delete, confirm, repositories, matching_repos,
                   repo_idx, tags, tag_idx, digest, deleted_count, failed_count,
                   lookups, endpoint, returned, results, total_deleted, total_failed>>

\* the program waits for the registry or for the operator
Blocked ==
    \/ pc \in {"cleanup_repositories_by_pattern", "confirm", "cleanup_repository",
               "get_manifest_digest", "show_registry_info", "info_list_repositories",
               "info_list_tags"}
    \/ pc = "delete_manifest" /\ ~args.dry_run

\* main: except KeyboardInterrupt
keyboard_interrupt ==
    /\ Blocked
    /\ interrupted' = TRUE
    /\ out' = out \cup {"interrupted"}
    /\ exit_code' = 1
    /\ pc' = "done"
    /\ UNCHANGED <<args, error, net_requests, delete_targets, call_deletes,
                   last_delete, confirm, repositories, matching_repos, repo_idx, tags,
                   tag_idx, digest, deleted_count, failed_count, lookups, endpoint,
                   returned, results, total_deleted, total_failed>>

Next ==
    \/ main
    \/ show_registry_info
    \/ info_list_repositories
    \/ info_list_tags
    \/ cleanup_repositories_by_pattern
    \/ confirm_deletion
    \/ confirm_eof
    \/ cleanup_repository
    \/ process_tag
    \/ delete_tag
    \/ main_end
    \/ keyboard_interrupt

Spec == Init /\ [][Next]_vars

----------------------------------------------------------------------------
(* get_manifest_digest on its own, against every manifest endpoint *)

InitDigest ==
    /\ args = [info |-> FALSE, pattern |-> NoArg, repository |-> Arg(<<"a">>),
               dry_run |-> FALSE]
    /\ pc = "lookup"
    /\ endpoint \in TypedEndpoints
    /\ InitRest

lookup_digest ==
    /\ pc = "lookup"
    /\ LET r == get_manifest_digest(endpoint) IN
         /\ digest' = r.digest
         /\ error' = IF r.raised
                     THEN [exc |-> "HTTPError", status |-> r.status,
                           from |-> "get_manifest_digest"]
                     ELSE NoError
         /\ pc' = IF r.raised THEN "lookup_raised" ELSE "lookup_returned"
    /\ UNCHANGED <<args, exit_code, interrupted, out, net_requests, delete_targets,
                   call_deletes, last_delete, confirm, repositories, matching_repos,
                   repo_idx, tags, tag_idx, deleted_count, failed_count, lookups,
                   endpoint, returned, results, total_deleted, total_failed>>

NextDigest == lookup_digest

SpecDigest == InitDigest /\ [][NextDigest]_vars

----------------------------------------------------------------------------
(* Properties *)

Resolved(lk) == Cardinality({i \in 1..Len(lk) : Truthy(lk[i])})

Range(sq) == {sq[i] : i \in 1..Len(sq)}

\* C1: with dry_run enabled no DELETE request is ever issued, and the
\* deleted count a cleanup_repository call returns is the number of its tags
\* for which get_manifest_digest gave a digest.
C1_DryRun ==
    args.dry_run =>
        /\ delete_targets = {}
        /\ call_deletes = <<>>
        /\ "DELETE" \notin net_requests
        /\ returned.returned => returned.deleted = Resolved(lookups)

\* a dry run of pattern cleanup returned from its second repository, with a
\* tag that had a digest and a tag that had none
C1_Witness ==
    /\ args.dry_run
    /\ PatternMode
    /\ Len(results) = 2
    /\ returned.returned
    /\ returned.deleted = 1
    /\ returned.failed = 1

\* the answer is "yes" whatever the case of its letters
IsYes(answer) ==
    /\ Len(answer) = 3
    /\ answer[1] \in {"y", "Y"}
    /\ answer[2] \in {"e", "E"}
    /\ answer[3] \in {"s", "S"}

\* C2: pattern cleanup without dry_run touches no matched repository (no tag
\* list request, no DELETE, no result entry) before the prompt was answered
\* "yes" in any case, and after any other answer it ends with no DELETE
\* issued and an empty result mapping.
C2_Confirmation ==
    (PatternMode /\ ~args.dry_run) =>
        /\ ( \/ "GET tags" \in net_requests
             \/ "HEAD" \in net_requests
             \/ "DELETE" \in net_requests
             \/ delete_targets # {}
             \/ results # <<>>
             \/ pc \in {"cleanup_repository", "get_manifest_digest", "delete_manifest"} )
           => (Len(confirm) = 1 /\ IsYes(confirm[1]))
        /\ (confirm # <<>> /\ ~IsYes(confirm[1]))
           => /\ pc \in {"main_end", "done"}
              /\ delete_targets = {}
              /\ results = <<>>
              /\ "cancelled" \in out

\* the prompt was answered "y" and the run ended
C2_Witness ==
    /\ PatternMode
    /\ ~args.dry_run
    /\ confirm = << <<"y">> >>
    /\ pc = "done"
    /\ exit_code = 0

\* C7: a delete_manifest call that sends the DELETE request reports success
\* exactly when the answer is HTTP 202 or 204, raises nothing, counts the tag
\* as deleted or as failed accordingly, and the loop goes on to the next tag
\* or returns the counts.
C7_DeleteManifest ==
    [][ (pc = "delete_manifest" /\ ~args.dry_run /\ ~interrupted')
        => /\ last_delete'.sent
           /\ last_delete'.ok <=> (last_delete'.kind = "response"
                                   /\ last_delete'.status \in {202, 204})
           /\ error' = NoError
           /\ exit_code' = exit_code
           /\ deleted_count' = deleted_count + (IF last_delete'.ok THEN 1 ELSE 0)
           /\ failed_count' = failed_count + (IF last_delete'.ok THEN 0 ELSE 1)
           /\ IF tag_idx < Len(tags)
              THEN pc' = "get_manifest_digest" /\ tag_idx' = tag_idx + 1
              ELSE returned'.returned ]_vars

\* a DELETE answered 200 was counted as failed and the next tag is up
C7_Witness ==
    /\ last_delete.sent
    /\ last_delete.status = 200
    /\ ~last_delete.ok
    /\ failed_count = 1
    /\ pc = "get_manifest_digest"
    /\ tag_idx = 2

\* the repository of the cleanup_repository call that returned last
ReturnedRepo ==
    IF PatternMode THEN results[Len(results)].repo ELSE args.repository.val

\* C10: the tags of a cleanup_repository call are processed one after the
\* other in the listed order; every DELETE request of the call addresses, in
\* the call's repository, the digest that get_manifest_digest returned for
\* its tag, at most one request per tag; when the call returns,
\* deleted + failed is the number of tags listed.
C10_Counts ==
    /\ \A i \in 1..Len(call_deletes) :
          LET d == call_deletes[i] IN
          /\ d.ti \in 1..Len(lookups)
          /\ Truthy(lookups[d.ti])
          /\ d.req.ref = lookups[d.ti]
          /\ d.req.ref = digest_of(tags[d.ti])
          /\ d.req.ref # tags[d.ti]
          /\ i < Len(call_deletes) => d.ti < call_deletes[i + 1].ti
          /\ d.req.repo \in delete_targets
    /\ pc = "get_manifest_digest" =>
          /\ tag_idx \in 1..Len(tags)
          /\ Len(lookups) = tag_idx - 1
          /\ deleted_count + failed_count = tag_idx - 1
          /\ \A i \in 1..Len(call_deletes) : call_deletes[i].req.repo = CurRepo
    /\ pc = "delete_manifest" =>
          /\ tag_idx \in 1..Len(tags)
          /\ Len(lookups) = tag_idx
          /\ digest = lookups[tag_idx]
          /\ deleted_count + failed_count = tag_idx - 1
          /\ \A i \in 1..Len(call_deletes) : call_deletes[i].ti < tag_idx
    /\ returned.returned =>
          /\ returned.deleted + returned.failed = Len(tags)
          /\ returned.deleted = deleted_count
          /\ returned.failed = failed_count
          /\ Len(lookups) = Len(tags)
          /\ \A i \in 1..Len(call_deletes) : call_deletes[i].req.repo = ReturnedRepo

\* a call of two tags returned after a DELETE for each, one of them failed
C10_Witness ==
    /\ returned.returned
    /\ Len(tags) = 2
    /\ Len(call_deletes) = 2
    /\ returned.deleted = 1
    /\ returned.failed = 1

----------------------------------------------------------------------------
(* Statements that the program does not meet *)

RECURSIVE glob_match(_, _)
\* the whole of name matches pattern read as a shell-style glob: "*" is any
\* sequence of characters, "?" is one character, any other character is itself
glob_match(pattern, name) ==
    IF pattern = <<>> THEN name = <<>>
    ELSE IF Head(pattern) = "*"
    THEN \/ glob_match(Tail(pattern), name)
         \/ (name # <<>> /\ glob_match(pattern, Tail(name)))
    ELSE IF Head(pattern) = "?"
    THEN name # <<>> /\ glob_match(Tail(pattern), Tail(name))
    ELSE name # <<>> /\ Head(name) = Head(pattern)
         /\ glob_match(Tail(pattern), Tail(name))

\* C3: pattern cleanup selects a repository of the catalog exactly when the
\* whole name matches the pattern read as a shell-style glob, and sends DELETE
\* requests to selected repositories only.
C3_GlobSelection ==
    PatternMode =>
        /\ \A i \in 1..Len(repositories) :
              (repositories[i] \in Range(matching_repos))
                  <=> glob_match(args.pattern.val, repositories[i])
        /\ delete_targets \subseteq Range(matching_repos)

\* C4: no exception leaves list_tags, whatever the answer to the tag list
\* request: a call of cleanup_repository or show_registry_info never ends by
\* an exception of list_tags.
C4_ListTagsNeverRaises == error.from # "list_tags"

\* the manifest media types in the order schema2, schema1, OCI
ProbeOrder == <<"manifest.v2+json", "manifest.v1+json", "oci.manifest.v1+json">>

\* the endpoint answers a HEAD for the i-th type with a digest header
Yields(i) ==
    /\ endpoint[ProbeOrder[i]].kind = "response"
    /\ endpoint[ProbeOrder[i]].status \in 200..299
    /\ Truthy(endpoint[ProbeOrder[i]].digest)

\* C5 (digest fallback): when the endpoint answers with a digest header for
\* the second type only, or for the third type only, get_manifest_digest
\* returns that type's digest, whatever the answers for the other types.
C5_DigestFallback ==
    pc \in {"lookup_returned", "lookup_raised"} =>
        \A i \in 2..3 :
            (Yields(i) /\ \A j \in (1..3) \ {i} : ~Yields(j))
                => (pc = "lookup_returned" /\ digest = endpoint[ProbeOrder[i]].digest)

\* C6: a cleanup that got to look up digests and was not interrupted ends
\* with exit status 0 whatever failed for single tags: no digest lookup and
\* no deletion ends the run.
C6_PartialFailure ==
    (pc = "done" /\ ~interrupted /\ "HEAD" \in net_requests
        /\ error.from # "list_tags")
        => (exit_code = 0 /\ error = NoError /\ returned.returned)

\* C8: with --pattern and --repository both supplied, and with none of
\* --info, --pattern, --repository supplied, the run ends printing usage, with
\* a non-zero exit status and no request made.
C8_UsageError ==
    (pc = "done"
        /\ \/ (args.pattern.given /\ args.repository.given)
           \/ (~args.info /\ ~args.pattern.given /\ ~args.repository.given))
        => /\ "usage" \in out
           /\ exit_code # 0
           /\ exit_code # -1
           /\ net_requests = {}

\* C9: a run without dry_run that was not interrupted and has sent a DELETE
\* request ends with the garbage collection hint printed; a dry run never
\* prints it.
C9_GcHint ==
    /\ (pc = "done" /\ ~interrupted /\ ~args.dry_run /\ delete_targets # {})
          => "gc_hint" \in out
    /\ args.dry_run => "gc_hint" \notin out

====
